---- MODULE Spec2Model ----
(***************************************************************************)
(* Zentro prediction market: the constant-product LiquidityPool            *)
(* (state/liquidity_pool.rs), the Market record (state/market.rs) and the  *)
(* program instructions place_bet / resolve_market / claim_winnings        *)
(* (lib.rs).                                                               *)
(*                                                                         *)
(* u64 fields are modelled as naturals in 0..U64_MAX, with U64_MAX scaled  *)
(* down so that the checked operations can actually overflow; every        *)
(* checked_* operator returns an Option, as in Rust.                       *)
(***************************************************************************)
EXTENDS Integers, Sequences, FiniteSets, TLC

VARIABLES
    pool,       \* the LiquidityPool account
    market,     \* the state::Market account
    now,        \* Clock::get()?.unix_timestamp
    accounts,   \* the program's accounts: Market, UserPosition per user, token balances
    overflow_checks, \* whether the build traps integer overflow (fixed per run)
    hist,       \* history: the pool's books (deposits, withdrawals, fees); per user, the
                \* successful claims so far and who had a payout transfer refused,
                \* and the sum of the payouts made
    last,       \* the most recent call: operation, arguments, result, pre-state
    steps       \* calls made so far on the pool or the market record; bets
                \* accepted so far by the program

vars == <<pool, market, now, accounts, overflow_checks, hist, last, steps>>

----------------------------------------------------------------------------
(* Bounds of the model *)

\* largest value of a u64 field (scaled down)
U64_MAX == 20000
\* number of calls explored on one pool
MaxSteps == 4

(* Program constants *)

\* basis-point denominator of the fee
BPS == 10000
\* "Max 10%" fee rate accepted by initialize / update_fee_rate
MAX_FEE_RATE == 1000

----------------------------------------------------------------------------
(* Rust's Option / Result and checked arithmetic on u64 *)

Some(v) == [some |-> TRUE, v |-> v]
None == [some |-> FALSE, v |-> 0]

\* faulty variant: the sum wraps instead of being refused
checked_add_wrapping(a, b) == Some((a + b) % (U64_MAX + 1))
\* faulty variant: the quotient is rounded up
checked_div_up(a, b) == IF b = 0 THEN None ELSE Some((a + b - 1) \div b)

checked_add(a, b) == IF a + b > U64_MAX THEN None ELSE Some(a + b)
checked_sub(a, b) == IF a < b THEN None ELSE Some(a - b)
checked_mul(a, b) == IF a * b > U64_MAX THEN None ELSE Some(a * b)
checked_div(a, b) == IF b = 0 THEN None ELSE Some(a \div b)

\* the value a method leaves in self, and what it returns
Ok(self, v) == [self |-> self, ok |-> TRUE, err |-> "none", ret |-> v]
Err(self, e) == [self |-> self, ok |-> FALSE, err |-> e, ret |-> 0]

----------------------------------------------------------------------------
(* LiquidityPool *)

\* LiquidityPool::initialize, for a fee_rate it accepts
pool_initialize(fee_rate) ==
    [ total_liquidity |-> 0, yes_reserves |-> 0, no_reserves |-> 0,
      fee_rate |-> fee_rate, accumulated_fees |-> 0, is_active |-> TRUE ]

\* faulty variant: shares are minted 1:1 whatever the pool holds
liquidity_tokens_flat(self, amount) == Some(amount)

\* the `liquidity_tokens` expression of add_liquidity
liquidity_tokens_for(self, amount) ==
    IF self.total_liquidity = 0 THEN Some(amount)
    ELSE LET total_reserves == checked_add(self.yes_reserves, self.no_reserves) IN
         IF ~total_reserves.some THEN None
         ELSE IF total_reserves.v = 0 THEN Some(amount)
         ELSE LET m == checked_mul(amount, self.total_liquidity) IN
              IF ~m.some THEN None ELSE checked_div(m.v, total_reserves.v)

add_liquidity(self, amount) ==
    IF ~self.is_active THEN Err(self, "PoolInactive")
    ELSE IF ~(amount > 0) THEN Err(self, "InvalidAmount")
    ELSE LET liquidity_tokens == liquidity_tokens_for(self, amount) IN
    IF ~liquidity_tokens.some THEN Err(self, "MathOverflow")
    ELSE LET half_amount == checked_div(amount, 2)
             y == checked_add(self.yes_reserves, half_amount.v) IN
    IF ~y.some THEN Err(self, "MathOverflow")
    ELSE LET s1 == [self EXCEPT !.yes_reserves = y.v]
             n == checked_add(s1.no_reserves, half_amount.v) IN
    IF ~n.some THEN Err(s1, "MathOverflow")
    ELSE LET s2 == [s1 EXCEPT !.no_reserves = n.v]
             l == checked_add(s2.total_liquidity, liquidity_tokens.v) IN
    IF ~l.some THEN Err(s2, "MathOverflow")
    ELSE Ok([s2 EXCEPT !.total_liquidity = l.v], liquidity_tokens.v)

remove_liquidity(self, liquidity_tokens) ==
    IF ~self.is_active THEN Err(self, "PoolInactive")
    ELSE IF ~(liquidity_tokens > 0) THEN Err(self, "InvalidAmount")
    ELSE IF ~(liquidity_tokens <= self.total_liquidity)
         THEN Err(self, "InsufficientLiquidity")
    ELSE LET ym == checked_mul(self.yes_reserves, liquidity_tokens) IN
    IF ~ym.some THEN Err(self, "MathOverflow")
    ELSE LET yes_amount == checked_div(ym.v, self.total_liquidity) IN
    IF ~yes_amount.some THEN Err(self, "MathOverflow")
    ELSE LET nm == checked_mul(self.no_reserves, liquidity_tokens) IN
    IF ~nm.some THEN Err(self, "MathOverflow")
    ELSE LET no_amount == checked_div(nm.v, self.total_liquidity) IN
    IF ~no_amount.some THEN Err(self, "MathOverflow")
    ELSE LET y == checked_sub(self.yes_reserves, yes_amount.v) IN
    IF ~y.some THEN Err(self, "MathOverflow")
    ELSE LET s1 == [self EXCEPT !.yes_reserves = y.v]
             n == checked_sub(s1.no_reserves, no_amount.v) IN
    IF ~n.some THEN Err(s1, "MathOverflow")
    ELSE LET s2 == [s1 EXCEPT !.no_reserves = n.v]
             l == checked_sub(s2.total_liquidity, liquidity_tokens) IN
    IF ~l.some THEN Err(s2, "MathOverflow")
    ELSE Ok([s2 EXCEPT !.total_liquidity = l.v], <<yes_amount.v, no_amount.v>>)

\* faulty variant: the fee is rounded up
swap_fee_amount_up(self, input_amount) ==
    LET m == checked_mul(input_amount, self.fee_rate) IN
    IF ~m.some THEN None ELSE checked_div(m.v + BPS - 1, BPS)

\* `fee_amount`, computed the same way by calculate_swap_output and execute_swap
swap_fee_amount(self, input_amount) ==
    LET m == checked_mul(input_amount, self.fee_rate) IN
    IF ~m.some THEN None ELSE checked_div(m.v, BPS)

\* faulty variant: the require! accepts an output equal to the whole reserve
NoFullDrain_lenient(output_amount, output_reserve) == output_amount <= output_reserve

\* the final require! of calculate_swap_output
NoFullDrain(output_amount, output_reserve) == output_amount < output_reserve

calculate_swap_output(self, input_amount, is_yes_to_no) ==
    IF ~self.is_active THEN Err(self, "PoolInactive")
    ELSE IF ~(input_amount > 0) THEN Err(self, "InvalidAmount")
    ELSE LET input_reserve ==
                 IF is_yes_to_no THEN self.yes_reserves ELSE self.no_reserves
             output_reserve ==
                 IF is_yes_to_no THEN self.no_reserves ELSE self.yes_reserves IN
    IF ~(input_reserve > 0 /\ output_reserve > 0)
    THEN Err(self, "InsufficientLiquidity")
    ELSE LET fee_amount == swap_fee_amount(self, input_amount) IN
    IF ~fee_amount.some THEN Err(self, "MathOverflow")
    ELSE LET input_after_fee == checked_sub(input_amount, fee_amount.v) IN
    IF ~input_after_fee.some THEN Err(self, "MathOverflow")
    ELSE LET new_input_reserve == checked_add(input_reserve, input_after_fee.v) IN
    IF ~new_input_reserve.some THEN Err(self, "MathOverflow")
    ELSE LET k == checked_mul(input_reserve, output_reserve) IN
    IF ~k.some THEN Err(self, "MathOverflow")
    ELSE LET new_output_reserve == checked_div(k.v, new_input_reserve.v) IN
    IF ~new_output_reserve.some THEN Err(self, "MathOverflow")
    ELSE LET output_amount == checked_sub(output_reserve, new_output_reserve.v) IN
    IF ~output_amount.some THEN Err(self, "MathOverflow")
    ELSE IF ~NoFullDrain(output_amount.v, output_reserve)
         THEN Err(self, "InsufficientLiquidity")
    ELSE Ok(self, output_amount.v)

\* faulty variant: the quote is taken after the input has been credited to its reserve
swap_quote_stale(self, input_amount, is_yes_to_no) ==
    LET in_field == IF is_yes_to_no THEN "yes_reserves" ELSE "no_reserves"
        credited == [self EXCEPT ![in_field] = (@ + input_amount) % (U64_MAX + 1)] IN
    [calculate_swap_output(credited, input_amount, is_yes_to_no) EXCEPT !.self = self]

\* the first statement of execute_swap: the quote it executes
swap_quote(self, input_amount, is_yes_to_no) ==
    calculate_swap_output(self, input_amount, is_yes_to_no)

execute_swap(self, input_amount, is_yes_to_no) ==
    LET quote == swap_quote(self, input_amount, is_yes_to_no) IN
    IF ~quote.ok THEN Err(self, quote.err)
    ELSE LET output_amount == quote.ret
             fee_amount == swap_fee_amount(self, input_amount) IN
    IF ~fee_amount.some THEN Err(self, "MathOverflow")
    ELSE LET input_after_fee == checked_sub(input_amount, fee_amount.v) IN
    IF ~input_after_fee.some THEN Err(self, "MathOverflow")
    ELSE LET in_field == IF is_yes_to_no THEN "yes_reserves" ELSE "no_reserves"
             out_field == IF is_yes_to_no THEN "no_reserves" ELSE "yes_reserves"
             i == checked_add(self[in_field], input_after_fee.v) IN
    IF ~i.some THEN Err(self, "MathOverflow")
    ELSE LET s1 == [self EXCEPT ![in_field] = i.v]
             o == checked_sub(s1[out_field], output_amount) IN
    IF ~o.some THEN Err(s1, "MathOverflow")
    ELSE LET s2 == [s1 EXCEPT ![out_field] = o.v]
             f == checked_add(s2.accumulated_fees, fee_amount.v) IN
    IF ~f.some THEN Err(s2, "MathOverflow")
    ELSE Ok([s2 EXCEPT !.accumulated_fees = f.v], output_amount)

get_price(self, is_yes_price) ==
    IF ~(self.yes_reserves > 0 /\ self.no_reserves > 0)
    THEN Err(self, "InsufficientLiquidity")
    ELSE LET total_reserves == checked_add(self.yes_reserves, self.no_reserves) IN
    IF ~total_reserves.some THEN Err(self, "MathOverflow")
    ELSE LET side == IF is_yes_price THEN self.yes_reserves ELSE self.no_reserves
             m == checked_mul(side, BPS) IN
    IF ~m.some THEN Err(self, "MathOverflow")
    ELSE LET p == checked_div(m.v, total_reserves.v) IN
    IF ~p.some THEN Err(self, "MathOverflow") ELSE Ok(self, p.v)

deactivate(self) == Ok([self EXCEPT !.is_active = FALSE], 0)

\* faulty variant: reactivate leaves the pool as it is
reactivate_stuck(self) == Ok(self, 0)

reactivate(self) == Ok([self EXCEPT !.is_active = TRUE], 0)

update_fee_rate(self, new_fee_rate) ==
    IF ~(new_fee_rate <= MAX_FEE_RATE) THEN Err(self, "InvalidFeeRate")
    ELSE Ok([self EXCEPT !.fee_rate = new_fee_rate], 0)

\* faulty variant: the fees are returned but not reset
collect_fees_keep(self) == Ok(self, self.accumulated_fees)

collect_fees(self) ==
    LET fees == self.accumulated_fees IN
    Ok([self EXCEPT !.accumulated_fees = 0], fees)

----------------------------------------------------------------------------
(* state::Market *)

\* Market::initialize, for parameters it accepts (end_time in the future,
\* fee rates <= 1000, 0 < min_bet_amount <= max_bet_amount)
market_initialize(end_time, min_bet_amount, max_bet_amount, created_at) ==
    [ authority |-> "authority", end_time |-> end_time,
      resolved |-> FALSE, resolution |-> None,
      total_yes_amount |-> 0, total_no_amount |-> 0,
      creator_fee_rate |-> 0, platform_fee_rate |-> 0,
      min_bet_amount |-> min_bet_amount, max_bet_amount |-> max_bet_amount,
      created_at |-> created_at, resolved_at |-> None ]

\* faulty variant: the BetTooLarge guard is missing
market_place_bet_unbounded(self, amount, is_yes, clock) ==
    IF ~(~self.resolved) THEN Err(self, "MarketResolved")
    ELSE IF ~(clock < self.end_time) THEN Err(self, "MarketExpired")
    ELSE IF ~(amount >= self.min_bet_amount) THEN Err(self, "BetTooSmall")
    ELSE LET field == IF is_yes THEN "total_yes_amount" ELSE "total_no_amount"
             t == checked_add(self[field], amount) IN
    IF ~t.some THEN Err(self, "Overflow")
    ELSE Ok([self EXCEPT ![field] = t.v], 0)

market_place_bet(self, amount, is_yes, clock) ==
    IF ~(~self.resolved) THEN Err(self, "MarketResolved")
    ELSE IF ~(clock < self.end_time) THEN Err(self, "MarketExpired")
    ELSE IF ~(amount >= self.min_bet_amount) THEN Err(self, "BetTooSmall")
    ELSE IF ~(amount <= self.max_bet_amount) THEN Err(self, "BetTooLarge")
    ELSE LET field == IF is_yes THEN "total_yes_amount" ELSE "total_no_amount"
             t == checked_add(self[field], amount) IN
    IF ~t.some THEN Err(self, "Overflow")
    ELSE Ok([self EXCEPT ![field] = t.v], 0)

\* faulty variant: resolve without the MarketNotExpired guard
market_resolve_early(self, resolution, clock) ==
    IF ~(~self.resolved) THEN Err(self, "AlreadyResolved")
    ELSE Ok([self EXCEPT !.resolved = TRUE,
                         !.resolution = Some(resolution),
                         !.resolved_at = Some(clock)], 0)

\* faulty variant: resolve forgets to stamp resolved_at
market_resolve_unstamped(self, resolution, clock) ==
    IF ~(~self.resolved) THEN Err(self, "AlreadyResolved")
    ELSE IF ~(clock >= self.end_time) THEN Err(self, "MarketNotExpired")
    ELSE Ok([self EXCEPT !.resolved = TRUE, !.resolution = Some(resolution)], 0)

\* faulty variant: resolve without the AlreadyResolved guard
market_resolve_again(self, resolution, clock) ==
    IF ~(clock >= self.end_time) THEN Err(self, "MarketNotExpired")
    ELSE Ok([self EXCEPT !.resolved = TRUE,
                         !.resolution = Some(resolution),
                         !.resolved_at = Some(clock)], 0)

market_resolve(self, resolution, clock) ==
    IF ~(~self.resolved) THEN Err(self, "AlreadyResolved")
    ELSE IF ~(clock >= self.end_time) THEN Err(self, "MarketNotExpired")
    ELSE Ok([self EXCEPT !.resolved = TRUE,
                         !.resolution = Some(resolution),
                         !.resolved_at = Some(clock)], 0)

is_expired(self, clock) == clock >= self.end_time

can_resolve(self, clock) == ~self.resolved /\ is_expired(self, clock)

----------------------------------------------------------------------------
(* The program: initialize_market, place_bet, resolve_market, claim_winnings *)

Users == {"alice", "bob"}
Oracle == "oracle"
\* the vault PDA and one token account per user
TokenAccounts == {"market_vault"} \cup Users

\* a handler's result: on Err the transaction is rolled back, so `self` is the
\* pre-state; `effects` lists, in order, the writes and external calls it made
OkE(self, effects) ==
    [self |-> self, ok |-> TRUE, err |-> "none", ret |-> 0, effects |-> effects]
ErrE(self, e, effects) ==
    [self |-> self, ok |-> FALSE, err |-> e, ret |-> 0, effects |-> effects]

\* `a + b` / `a += b` on u64 without checked_add: traps when the build checks
\* overflow, wraps otherwise
unchecked_add(a, b, checks) ==
    IF a + b <= U64_MAX THEN Some(a + b)
    ELSE IF checks THEN None
    ELSE Some((a + b) % (U64_MAX + 1))

\* token::transfer as the handlers use it: the token program moves `amount`
\* or rejects the call (insufficient funds, or any other refusal: ledger_ok)
token_transfer(token, from, to, amount, ledger_ok) ==
    IF ~ledger_ok THEN None
    ELSE IF token[from] < amount THEN None
    ELSE IF from = to THEN Some(token)
    ELSE IF token[to] + amount > U64_MAX THEN None
    ELSE Some([token EXCEPT ![from] = @ - amount, ![to] = @ + amount])

\* a UserPosition account before init_if_needed has created it
NoPosition ==
    [init |-> FALSE, user |-> "none", yes_tokens |-> 0, no_tokens |-> 0, claimed |-> FALSE]

initialize_market(end_time, oracle, balances) ==
    [ market |-> [ end_time |-> end_time, oracle |-> oracle,
                   total_yes_tokens |-> 0, total_no_tokens |-> 0,
                   resolved |-> FALSE, outcome |-> None, creator |-> "creator" ],
      user_position |-> [u \in Users |-> NoPosition],
      token |-> balances ]

place_bet(acc, user, amount, prediction, market_vault, ledger_ok, checks, clock) ==
    LET m == acc.market
        user_position == acc.user_position[user] IN
    IF ~(~m.resolved) THEN ErrE(acc, "MarketResolved", <<>>)
    ELSE IF ~(clock < m.end_time) THEN ErrE(acc, "MarketExpired", <<>>)
    ELSE IF ~(amount > 0) THEN ErrE(acc, "InvalidAmount", <<>>)
    ELSE LET t == token_transfer(acc.token, user, market_vault, amount, ledger_ok) IN
    IF ~t.some THEN ErrE(acc, "TransferFailed", <<"transfer">>)
    ELSE LET total_field == IF prediction THEN "total_yes_tokens" ELSE "total_no_tokens"
             pos_field == IF prediction THEN "yes_tokens" ELSE "no_tokens"
             total == unchecked_add(m[total_field], amount, checks)
             mine == unchecked_add(user_position[pos_field], amount, checks) IN
    IF ~total.some \/ ~mine.some THEN ErrE(acc, "panic", <<"transfer">>)
    ELSE OkE([acc EXCEPT !.token = t.v,
                         !.market[total_field] = total.v,
                         !.user_position[user] =
                             [user_position EXCEPT !.init = TRUE, !.user = user,
                                                   ![pos_field] = mine.v]],
             <<"transfer", "totals", "position">>)

\* faulty variant: any signer is accepted
oracle_unchecked(signer, m) == TRUE

\* the require! on the signer in resolve_market
oracle_authorized(signer, m) == signer = m.oracle

resolve_market(acc, signer, outcome, clock) ==
    LET m == acc.market IN
    IF ~(~m.resolved) THEN ErrE(acc, "MarketAlreadyResolved", <<>>)
    ELSE IF ~oracle_authorized(signer, m) THEN ErrE(acc, "UnauthorizedOracle", <<>>)
    ELSE IF ~(clock >= m.end_time) THEN ErrE(acc, "MarketNotExpired", <<>>)
    ELSE OkE([acc EXCEPT !.market.resolved = TRUE, !.market.outcome = Some(outcome)],
             <<"resolved">>)

\* faulty variant: the AlreadyClaimed guard is missing
claim_requires_unguarded(m, user_position, user) ==
    IF ~m.resolved THEN "MarketNotResolved"
    ELSE IF ~(user_position.user = user) THEN "UnauthorizedUser"
    ELSE "none"

\* the three leading require! of claim_winnings: the error raised, or "none"
claim_requires(m, user_position, user) ==
    IF ~m.resolved THEN "MarketNotResolved"
    ELSE IF ~(user_position.user = user) THEN "UnauthorizedUser"
    ELSE IF ~(~user_position.claimed) THEN "AlreadyClaimed"
    ELSE "none"

\* `payout`: 128-bit product and quotient, narrowed `as u64`; None is the panic
\* of the unchecked sum or of a division by zero
claim_payout(m, winning_tokens, outcome, checks) ==
    LET total_winning_pool == IF outcome THEN m.total_yes_tokens ELSE m.total_no_tokens
        total_pool == unchecked_add(m.total_yes_tokens, m.total_no_tokens, checks) IN
    IF ~total_pool.some \/ total_winning_pool = 0 THEN None
    ELSE Some(((winning_tokens * total_pool.v) \div total_winning_pool) % (U64_MAX + 1))

\* faulty variant: the result of token::transfer is dropped instead of propagated
claim_settle_unchecked(acc, user, payout, ledger_ok) ==
    LET t == token_transfer(acc.token, "market_vault", user, payout, ledger_ok)
        token == IF t.some THEN t.v ELSE acc.token IN
    [OkE([acc EXCEPT !.token = token, !.user_position[user].claimed = TRUE],
         <<"transfer", "claimed">>) EXCEPT !.ret = payout]

\* the tail of claim_winnings: pay out of the vault, then mark the position
claim_settle(acc, user, payout, ledger_ok) ==
    LET t == token_transfer(acc.token, "market_vault", user, payout, ledger_ok) IN
    IF ~t.some THEN ErrE(acc, "TransferFailed", <<"transfer">>)
    ELSE [OkE([acc EXCEPT !.token = t.v, !.user_position[user].claimed = TRUE],
              <<"transfer", "claimed">>) EXCEPT !.ret = payout]

claim_winnings(acc, user, ledger_ok, checks) ==
    LET m == acc.market
        user_position == acc.user_position[user] IN
    IF ~user_position.init THEN ErrE(acc, "AccountNotInitialized", <<>>)
    ELSE LET e == claim_requires(m, user_position, user) IN
    IF e # "none" THEN ErrE(acc, e, <<>>)
    ELSE LET outcome == m.outcome.v
             winning_tokens ==
                 IF outcome THEN user_position.yes_tokens ELSE user_position.no_tokens IN
    IF ~(winning_tokens > 0) THEN ErrE(acc, "NoWinnings", <<>>)
    ELSE LET payout == claim_payout(m, winning_tokens, outcome, checks) IN
    IF ~payout.some THEN ErrE(acc, "panic", <<>>)
    ELSE claim_settle(acc, user, payout.v, ledger_ok)

----------------------------------------------------------------------------
(* utils/pricing.rs: basis-point arithmetic with saturating operations *)

\* u64::MAX for the pricing helpers. Their constants (10000, 1000000) are kept
\* at full size, so the range is wider than the one the accounts use; the
\* 128-bit intermediates are exact for the inputs explored.
PRICING_U64_MAX == 2000000000

saturating_add(a, b) == IF a > PRICING_U64_MAX - b THEN PRICING_U64_MAX ELSE a + b
saturating_sub(a, b) == IF a < b THEN 0 ELSE a - b
saturating_mul(a, b) ==
    IF b > 0 /\ a > PRICING_U64_MAX \div b THEN PRICING_U64_MAX ELSE a * b
\* no caller reaches it with a zero divisor
saturating_div(a, b) == a \div b
\* `(a as u128).saturating_mul(10000).saturating_div(b as u128) as u64`
scaled_ratio(a, b) == ((a * 10000) \div b) % (PRICING_U64_MAX + 1)
min(a, b) == IF a < b THEN a ELSE b
max(a, b) == IF a > b THEN a ELSE b

\* PricingParams::default()
DefaultParams ==
    [ base_price |-> 5000, volatility_factor |-> 100,
      liquidity_depth |-> 1000000, time_decay_factor |-> 50 ]

calculate_liquidity_factor(current_liquidity, target_liquidity) ==
    IF target_liquidity = 0 THEN 10000
    ELSE LET ratio == scaled_ratio(current_liquidity, target_liquidity) IN
         max(8000, min(12000, saturating_add(8000,
                 saturating_div(saturating_mul(ratio, 4000), 10000))))

calculate_volatility_adjustment(yes_shares, no_shares, volatility_factor) ==
    LET total_shares == saturating_add(yes_shares, no_shares) IN
    IF total_shares = 0 THEN 0
    ELSE LET imbalance == IF yes_shares > no_shares
                          THEN saturating_sub(yes_shares, no_shares)
                          ELSE saturating_sub(no_shares, yes_shares)
             imbalance_ratio == scaled_ratio(imbalance, total_shares) IN
         saturating_div(saturating_mul(imbalance_ratio, volatility_factor), 10000)

calculate_slippage(order_size, total_liquidity) ==
    IF total_liquidity = 0 THEN 500
    ELSE LET order_ratio == scaled_ratio(order_size, total_liquidity)
             base_slippage ==
                 saturating_div(saturating_mul(order_ratio, order_ratio), 10000) IN
         min(base_slippage, 1000)

calculate_market_price(yes_shares, no_shares, total_liquidity, params) ==
    IF total_liquidity = 0 THEN params.base_price
    ELSE LET total_shares == saturating_add(yes_shares, no_shares) IN
    IF total_shares = 0 THEN params.base_price
    ELSE LET yes_probability == scaled_ratio(yes_shares, total_shares)
             liquidity_factor ==
                 calculate_liquidity_factor(total_liquidity, params.liquidity_depth)
             volatility_adjustment ==
                 calculate_volatility_adjustment(yes_shares, no_shares,
                                                 params.volatility_factor)
             adjusted_price ==
                 saturating_add(
                     saturating_div(saturating_mul(yes_probability, liquidity_factor),
                                    10000),
                     volatility_adjustment) IN
         min(adjusted_price, 10000)

calculate_buy_price(current_price, shares_to_buy, total_liquidity, is_yes_side) ==
    IF shares_to_buy = 0 THEN 0
    ELSE LET base_cost ==
                 saturating_div(saturating_mul(current_price, shares_to_buy), 10000)
             slippage == calculate_slippage(shares_to_buy, total_liquidity)
             slippage_cost == saturating_div(saturating_mul(base_cost, slippage), 10000) IN
    IF is_yes_side THEN saturating_add(base_cost, slippage_cost)
    ELSE LET inverse_price == saturating_sub(10000, current_price)
             inverse_cost ==
                 saturating_div(saturating_mul(inverse_price, shares_to_buy), 10000) IN
         saturating_add(inverse_cost, slippage_cost)

\* faulty variant: the two odds are returned in the wrong order
calculate_payout_odds_swapped(current_price) ==
    IF current_price = 0 THEN <<0, 10000>>
    ELSE IF current_price >= 10000 THEN <<10000, 0>>
    ELSE <<saturating_div(saturating_mul(10000, 10000),
                          saturating_sub(10000, current_price)),
           saturating_div(saturating_mul(10000, 10000), current_price)>>

calculate_payout_odds(current_price) ==
    IF current_price = 0 THEN <<0, 10000>>
    ELSE IF current_price >= 10000 THEN <<10000, 0>>
    ELSE LET yes_odds == saturating_div(saturating_mul(10000, 10000), current_price)
             no_odds == saturating_div(saturating_mul(10000, 10000),
                                       saturating_sub(10000, current_price)) IN
         <<yes_odds, no_odds>>

----------------------------------------------------------------------------
(* Inputs explored *)

\* latest clock value explored
MaxTime == 2

AddAmounts == {0, 1, 3, 20, U64_MAX}
RemoveShares == {0, 1, 2, U64_MAX}
SwapInputs == {0, 1, 10}
FeeRates == {0, 100, MAX_FEE_RATE}
NewFeeRates == {0, MAX_FEE_RATE, MAX_FEE_RATE + 1}
EndTimes == {1, 2}
BetLimits == {<<10, 1000>>, <<1, U64_MAX>>}
BetAmounts == {5, 10, 1000, 1001, U64_MAX}
StakeAmounts == {0, 1}
\* token holdings when the market is created; with them no total comes near
\* U64_MAX
Balances == [market_vault |-> 0, alice |-> 2, bob |-> 1]
\* PlaceBet leaves `market_vault` unconstrained: any token account can be passed
VaultArguments == {"market_vault", "bob"}
Signers == {Oracle, "alice"}
MarketEndTimes == {1}
\* number of bets accepted on one market
MaxBets == 2

\* largest current_price asked of calculate_payout_odds
MaxPrice == 10001
BuyPrices == {0, 2500, 5000, 7500, 10000}
ShareCounts == {0, 1, 2, 100, 1000, 2000, 10000}
Liquidities == {0, 100000}

\* the record left in `last` by a call
Call(op, args, r, pre) ==
    [op |-> op, args |-> args, ok |-> r.ok, err |-> r.err, ret |-> r.ret, pre |-> pre]

NoCall == [op |-> "none", args |-> <<>>, ok |-> TRUE, err |-> "none", ret |-> 0, pre |-> 0]

\* the accounts of a program that plays no part in the behaviours explored
IdleAccounts == initialize_market(1, Oracle, Balances)

NoHistory == [paid |-> [u \in Users |-> 0], refused |-> {}, payouts |-> 0]

----------------------------------------------------------------------------
(* The pool's operations as actions *)

\* the pool's books at the start of the calls explored: nothing deposited,
\* withdrawn or collected yet, and the fees charged so far still in the pool
PoolHistory(p) ==
    [ deposited |-> 0, odd_deposits |-> 0, withdrawn |-> 0, plain |-> TRUE,
      charged |-> p.accumulated_fees, collected |-> 0, reopened |-> FALSE ]

\* the books after a call: amounts paid in by successful add_liquidity (and
\* how many of them were odd), amounts paid out by successful
\* remove_liquidity, fees charged by successful execute_swap, fees handed out
\* by collect_fees; `plain` holds while no swap was attempted and no
\* add_liquidity or remove_liquidity failed; `reopened` holds once an inactive
\* pool has been reactivated
PoolLedger(h, p, op, args, r) ==
    [ deposited |-> IF op = "add_liquidity" /\ r.ok THEN h.deposited + args[1]
                    ELSE h.deposited,
      odd_deposits |-> IF op = "add_liquidity" /\ r.ok /\ args[1] % 2 = 1
                       THEN h.odd_deposits + 1 ELSE h.odd_deposits,
      withdrawn |-> IF op = "remove_liquidity" /\ r.ok
                    THEN h.withdrawn + r.ret[1] + r.ret[2] ELSE h.withdrawn,
      plain |-> /\ h.plain
                /\ op # "execute_swap"
                /\ (op \in {"add_liquidity", "remove_liquidity"} => r.ok),
      charged |-> IF op = "execute_swap" /\ r.ok
                  THEN h.charged + (args[1] * p.fee_rate) \div BPS ELSE h.charged,
      collected |-> IF op = "collect_fees" /\ r.ok THEN h.collected + r.ret
                    ELSE h.collected,
      reopened |-> h.reopened \/ (op = "reactivate" /\ r.ok /\ ~p.is_active) ]

PoolCall(op, args, r) ==
    /\ steps < MaxSteps
    /\ pool' = r.self
    /\ hist' = PoolLedger(hist, pool, op, args, r)
    /\ last' = Call(op, args, r, pool)
    /\ steps' = steps + 1
    /\ UNCHANGED <<market, now, accounts, overflow_checks>>

AddLiquidity ==
    \E amount \in AddAmounts :
        PoolCall("add_liquidity", <<amount>>, add_liquidity(pool, amount))

RemoveLiquidity ==
    \E liquidity_tokens \in RemoveShares :
        PoolCall("remove_liquidity", <<liquidity_tokens>>,
                 remove_liquidity(pool, liquidity_tokens))

CalculateSwapOutput ==
    \E input_amount \in SwapInputs, is_yes_to_no \in BOOLEAN :
        PoolCall("calculate_swap_output", <<input_amount, is_yes_to_no>>,
                 calculate_swap_output(pool, input_amount, is_yes_to_no))

ExecuteSwap ==
    \E input_amount \in SwapInputs, is_yes_to_no \in BOOLEAN :
        PoolCall("execute_swap", <<input_amount, is_yes_to_no>>,
                 execute_swap(pool, input_amount, is_yes_to_no))

GetPrice ==
    \E is_yes_price \in BOOLEAN :
        PoolCall("get_price", <<is_yes_price>>, get_price(pool, is_yes_price))

Deactivate == PoolCall("deactivate", <<>>, deactivate(pool))

Reactivate == PoolCall("reactivate", <<>>, reactivate(pool))

UpdateFeeRate ==
    \E new_fee_rate \in NewFeeRates :
        PoolCall("update_fee_rate", <<new_fee_rate>>, update_fee_rate(pool, new_fee_rate))

CollectFees == PoolCall("collect_fees", <<>>, collect_fees(pool))

PoolNext ==
    \/ AddLiquidity
    \/ RemoveLiquidity
    \/ CalculateSwapOutput
    \/ ExecuteSwap
    \/ GetPrice
    \/ Deactivate
    \/ Reactivate
    \/ UpdateFeeRate
    \/ CollectFees

\* a market that plays no part in the pool's behaviours
IdleMarket == market_initialize(1, 1, 1, 0)

\* a pool that plays no part in the market's behaviours
IdlePool == pool_initialize(0)

\* the pool right after LiquidityPool::initialize
PoolInit ==
    /\ pool \in {pool_initialize(f) : f \in FeeRates}
    /\ market = IdleMarket
    /\ now = 0
    /\ accounts = IdleAccounts
    /\ overflow_checks = TRUE
    /\ hist = PoolHistory(pool)
    /\ last = NoCall
    /\ steps = 0

SpecPool == PoolInit /\ [][PoolNext]_vars

\* largest distance of accumulated_fees from U64_MAX in a long-serving pool
FeeHeadroom == 1

\* a pool that has served long enough for accumulated_fees to approach the top
\* of its range: every fee-bearing swap adds at most U64_MAX / BPS to it and
\* nothing but collect_fees lowers it
AgedInit ==
    /\ pool \in {[pool_initialize(f) EXCEPT !.accumulated_fees = U64_MAX - g] :
                    f \in FeeRates, g \in 0..FeeHeadroom}
    /\ market = IdleMarket
    /\ now = 0
    /\ accounts = IdleAccounts
    /\ overflow_checks = TRUE
    /\ hist = PoolHistory(pool)
    /\ last = NoCall
    /\ steps = 0

SpecAged == AgedInit /\ [][PoolNext]_vars

----------------------------------------------------------------------------
(* The market's operations as actions *)

MarketCall(op, args, r) ==
    /\ steps < MaxSteps
    /\ market' = r.self
    /\ last' = Call(op, args, r, [market |-> market, now |-> now])
    /\ steps' = steps + 1
    /\ UNCHANGED <<pool, now, accounts, overflow_checks, hist>>

MarketPlaceBet ==
    \E amount \in BetAmounts, is_yes \in BOOLEAN :
        MarketCall("Market::place_bet", <<amount, is_yes>>,
                   market_place_bet(market, amount, is_yes, now))

MarketResolve ==
    \E resolution \in BOOLEAN :
        MarketCall("Market::resolve", <<resolution>>, market_resolve(market, resolution, now))

\* the clock advances between calls
Tick ==
    /\ now < MaxTime
    /\ now' = now + 1
    /\ UNCHANGED <<pool, market, accounts, overflow_checks, hist, last, steps>>

MarketNext ==
    \/ MarketPlaceBet
    \/ MarketResolve
    \/ Tick

\* the market right after Market::initialize
MarketInit ==
    /\ pool = IdlePool
    /\ now = 0
    /\ accounts = IdleAccounts
    /\ overflow_checks = TRUE
    /\ hist = NoHistory
    /\ market \in {market_initialize(e, b[1], b[2], 0) : e \in EndTimes, b \in BetLimits}
    /\ last = NoCall
    /\ steps = 0

SpecMarket == MarketInit /\ [][MarketNext]_vars

----------------------------------------------------------------------------
(* The program's instructions as actions *)

ProgramCall(op, args, r, hist2) ==
    /\ (op = "place_bet" /\ r.ok) => steps < MaxBets
    /\ accounts' = r.self
    /\ hist' = hist2
    /\ last' = [op |-> op, args |-> args, ok |-> r.ok, err |-> r.err, ret |-> r.ret,
                effects |-> r.effects,
                pre |-> [accounts |-> accounts, now |-> now, hist |-> hist]]
    /\ steps' = IF op = "place_bet" /\ r.ok THEN steps + 1 ELSE steps
    /\ UNCHANGED <<pool, market, now, overflow_checks>>

PlaceBet ==
    \E user \in Users, amount \in StakeAmounts, prediction \in BOOLEAN :
    \E market_vault \in VaultArguments :
        ProgramCall("place_bet", <<user, amount, prediction, market_vault>>,
                    place_bet(accounts, user, amount, prediction, market_vault,
                              TRUE, overflow_checks, now),
                    hist)

ResolveMarket ==
    \E signer \in Signers, outcome \in BOOLEAN :
        ProgramCall("resolve_market", <<signer, outcome>>,
                    resolve_market(accounts, signer, outcome, now), hist)

ClaimWinnings ==
    \E user \in Users, ledger_ok \in BOOLEAN :
        LET r == claim_winnings(accounts, user, ledger_ok, overflow_checks) IN
        ProgramCall("claim_winnings", <<user, ledger_ok>>, r,
                    [paid |-> IF r.ok THEN [hist.paid EXCEPT ![user] = @ + 1]
                                      ELSE hist.paid,
                     refused |-> IF r.err = "TransferFailed"
                                 THEN hist.refused \cup {user} ELSE hist.refused,
                     payouts |-> IF r.ok THEN hist.payouts + r.ret ELSE hist.payouts])

ProgramNext ==
    \/ PlaceBet
    \/ ResolveMarket
    \/ ClaimWinnings
    \/ Tick

\* the accounts right after initialize_market
ProgramInit ==
    /\ pool = IdlePool
    /\ market = IdleMarket
    /\ now = 0
    /\ accounts \in {initialize_market(e, Oracle, Balances) : e \in MarketEndTimes}
    /\ overflow_checks \in BOOLEAN
    /\ hist = NoHistory
    /\ last = NoCall
    /\ steps = 0

SpecProgram == ProgramInit /\ [][ProgramNext]_vars

\* a stake of more than half the u64 range
LargeStake == U64_MAX \div 2 + 1
LargeStakes == {LargeStake - 1, LargeStake}
\* holdings of a mint whose supply is the whole u64 range
LargeBalances == [market_vault |-> 0, alice |-> LargeStake, bob |-> U64_MAX - LargeStake]

\* place_bet with stakes of the order of the mint's supply
PlaceLargeBet ==
    \E user \in Users, amount \in LargeStakes, prediction \in BOOLEAN :
    \E market_vault \in VaultArguments :
        ProgramCall("place_bet", <<user, amount, prediction, market_vault>>,
                    place_bet(accounts, user, amount, prediction, market_vault,
                              TRUE, overflow_checks, now),
                    hist)

LargeNext ==
    \/ PlaceLargeBet
    \/ ResolveMarket
    \/ ClaimWinnings
    \/ Tick

\* the accounts right after initialize_market, for a mint held in large amounts
LargeInit ==
    /\ pool = IdlePool
    /\ market = IdleMarket
    /\ now = 0
    /\ accounts \in {initialize_market(e, Oracle, LargeBalances) : e \in MarketEndTimes}
    /\ overflow_checks \in BOOLEAN
    /\ hist = NoHistory
    /\ last = NoCall
    /\ steps = 0

SpecLarge == LargeInit /\ [][LargeNext]_vars

----------------------------------------------------------------------------
(* The pricing helpers as actions: pure functions, applied to inputs *)

\* the helpers keep no state, so a behaviour applies one of them to one input
PricingCall(op, args, ret) ==
    /\ last.op = "none"
    /\ last' = [op |-> op, args |-> args, ok |-> TRUE, err |-> "none", ret |-> ret,
                pre |-> 0]
    /\ UNCHANGED <<pool, market, now, accounts, overflow_checks, hist, steps>>

CalculateMarketPrice ==
    \E yes_shares \in ShareCounts, no_shares \in ShareCounts,
       total_liquidity \in Liquidities :
        PricingCall("calculate_market_price", <<yes_shares, no_shares, total_liquidity>>,
                    calculate_market_price(yes_shares, no_shares, total_liquidity,
                                           DefaultParams))

CalculateBuyPrice ==
    \E current_price \in BuyPrices, shares_to_buy \in ShareCounts,
       total_liquidity \in Liquidities, is_yes_side \in BOOLEAN :
        PricingCall("calculate_buy_price",
                    <<current_price, shares_to_buy, total_liquidity, is_yes_side>>,
                    calculate_buy_price(current_price, shares_to_buy, total_liquidity,
                                        is_yes_side))

CalculatePayoutOdds ==
    \E current_price \in 0..MaxPrice :
        PricingCall("calculate_payout_odds", <<current_price>>,
                    calculate_payout_odds(current_price))

PricingNext ==
    \/ CalculateMarketPrice
    \/ CalculateBuyPrice
    \/ CalculatePayoutOdds

\* nothing has been asked of the pricing helpers yet
PricingInit ==
    /\ pool = IdlePool
    /\ market = IdleMarket
    /\ now = 0
    /\ accounts = IdleAccounts
    /\ overflow_checks = TRUE
    /\ hist = NoHistory
    /\ last = NoCall
    /\ steps = 0

SpecPricing == PricingInit /\ [][PricingNext]_vars

----------------------------------------------------------------------------
(* Properties of the liquidity pool *)

InputReserve(p, is_yes_to_no) == IF is_yes_to_no THEN p.yes_reserves ELSE p.no_reserves
OutputReserve(p, is_yes_to_no) == IF is_yes_to_no THEN p.no_reserves ELSE p.yes_reserves

SwapSucceeded == last.op = "execute_swap" /\ last.ok

\* C1: every successful execute_swap at fee_rate > 0 leaves
\* yes_reserves * no_reserves at least as large as it was before the call.
C1_ProductMonotone ==
    (SwapSucceeded /\ last.pre.fee_rate > 0) =>
        pool.yes_reserves * pool.no_reserves
            >= last.pre.yes_reserves * last.pre.no_reserves

\* a well-formed quote request whose constant-product quotient rounds to zero,
\* so that the computed output is the whole output reserve
WouldDrain(p, input_amount, is_yes_to_no) ==
    LET fee == (input_amount * p.fee_rate) \div BPS
        new_in == InputReserve(p, is_yes_to_no) + input_amount - fee
        k == InputReserve(p, is_yes_to_no) * OutputReserve(p, is_yes_to_no) IN
    /\ p.is_active /\ input_amount > 0
    /\ InputReserve(p, is_yes_to_no) > 0 /\ OutputReserve(p, is_yes_to_no) > 0
    /\ input_amount * p.fee_rate <= U64_MAX /\ new_in <= U64_MAX /\ k <= U64_MAX
    /\ k \div new_in = 0

\* C2: a quote (calculate_swap_output, or the swap that executes it) is always
\* strictly below the output-side reserve, a request that would take the whole
\* reserve fails with InsufficientLiquidity, and a successful swap on positive
\* reserves leaves both reserves positive.
C2_NoFullDrain ==
    /\ (last.op \in {"calculate_swap_output", "execute_swap"} /\ last.ok) =>
           last.ret < OutputReserve(last.pre, last.args[2])
    /\ (last.op \in {"calculate_swap_output", "execute_swap"}
            /\ WouldDrain(last.pre, last.args[1], last.args[2])) =>
           (~last.ok /\ last.err = "InsufficientLiquidity")
    /\ (SwapSucceeded /\ last.pre.yes_reserves > 0 /\ last.pre.no_reserves > 0) =>
           (pool.yes_reserves > 0 /\ pool.no_reserves > 0)

\* a swap that paid out, and left its output reserve positive
C2_Witness ==
    SwapSucceeded /\ last.ret > 0 /\ OutputReserve(pool, last.args[2]) > 0

\* C3: a successful execute_swap returns exactly what calculate_swap_output
\* returns on the pre-state for the same arguments, and calculate_swap_output
\* leaves every field of the pool as it was.
C3_PreviewMatchesExecution ==
    /\ SwapSucceeded =>
           LET q == calculate_swap_output(last.pre, last.args[1], last.args[2]) IN
           q.ok /\ q.ret = last.ret
    /\ last.op = "calculate_swap_output" => pool = last.pre

\* a swap large enough for the quote to depend on the reserve it is taken from
C3_Witness ==
    SwapSucceeded /\ last.args[1] >= InputReserve(last.pre, last.args[2])

\* C6: a failed add_liquidity leaves yes_reserves, no_reserves and
\* total_liquidity exactly as they were before the call.
C6_AddLiquidityAtomic ==
    (last.op = "add_liquidity" /\ ~last.ok) =>
        /\ pool.yes_reserves = last.pre.yes_reserves
        /\ pool.no_reserves = last.pre.no_reserves
        /\ pool.total_liquidity = last.pre.total_liquidity

\* C7: a failed execute_swap leaves yes_reserves, no_reserves and
\* accumulated_fees exactly as they were before the call.
C7_ExecuteSwapAtomic ==
    (last.op = "execute_swap" /\ ~last.ok) =>
        /\ pool.yes_reserves = last.pre.yes_reserves
        /\ pool.no_reserves = last.pre.no_reserves
        /\ pool.accumulated_fees = last.pre.accumulated_fees

\* C15: as long as only add_liquidity and remove_liquidity have changed the
\* pool, all of them successfully and with no swap attempted, yes_reserves +
\* no_reserves equals the amounts deposited, minus the amounts the removals
\* returned, minus one unit for every deposit of an odd amount.
C15_Conservation ==
    hist.plain =>
        pool.yes_reserves + pool.no_reserves
            = hist.deposited - hist.withdrawn - hist.odd_deposits

\* even and odd deposits followed by a removal that paid out
C15_Witness ==
    /\ hist.plain /\ hist.odd_deposits > 0 /\ hist.deposited > 3
    /\ last.op = "remove_liquidity" /\ last.ok /\ last.ret[1] + last.ret[2] > 0

\* a removal the pool has the shares for
Redeemable(p, shares) == p.is_active /\ 0 < shares /\ shares <= p.total_liquidity

\* C16: remove_liquidity(s) on an active pool with 0 < s <= total_liquidity
\* succeeds, returns exactly floor(yes_reserves * s / total_liquidity) and
\* floor(no_reserves * s / total_liquidity), and debits the reserves by them
\* and total_liquidity by s; of two such removals from the same pool the
\* larger returns at least as much on each side; and a pool with no shares
\* outstanding holds no reserves.
C16_ProportionalRemoval ==
    /\ (last.op = "remove_liquidity" /\ Redeemable(last.pre, last.args[1])) =>
           LET p == last.pre
               s == last.args[1]
               yes_amount == (p.yes_reserves * s) \div p.total_liquidity
               no_amount == (p.no_reserves * s) \div p.total_liquidity IN
           /\ last.ok
           /\ last.ret = <<yes_amount, no_amount>>
           /\ pool = [p EXCEPT !.yes_reserves = @ - yes_amount,
                               !.no_reserves = @ - no_amount,
                               !.total_liquidity = @ - s]
    /\ \A s1 \in RemoveShares, s2 \in RemoveShares :
           (s1 <= s2 /\ Redeemable(pool, s1) /\ Redeemable(pool, s2)) =>
               LET r1 == remove_liquidity(pool, s1)
                   r2 == remove_liquidity(pool, s2) IN
               /\ r1.ok /\ r2.ok
               /\ r1.ret[1] <= r2.ret[1] /\ r1.ret[2] <= r2.ret[2]
    /\ pool.total_liquidity = 0 => (pool.yes_reserves = 0 /\ pool.no_reserves = 0)

\* C17: whenever both reserves are positive and get_price answers for both
\* sides, the yes price and the no price add up to exactly 10000.
C17_PricesSumToBps ==
    (pool.yes_reserves > 0 /\ pool.no_reserves > 0) =>
        LET yes_price == get_price(pool, TRUE)
            no_price == get_price(pool, FALSE) IN
        (yes_price.ok /\ no_price.ok) => yes_price.ret + no_price.ret = BPS

GuardedOps == {"add_liquidity", "remove_liquidity", "calculate_swap_output", "execute_swap"}

\* the result of a call, without the pool it leaves
Answer(r) == <<r.ok, r.err, r.ret>>

C19_FeesCollectedOnce ==
    /\ last.op = "collect_fees" =>
           /\ last.ok
           /\ last.ret = last.pre.accumulated_fees
           /\ pool = [last.pre EXCEPT !.accumulated_fees = 0]
    /\ hist.collected + pool.accumulated_fees = hist.charged

\* a second collection, right after one that handed out fees, returns nothing
C19_Witness ==
    /\ last.op = "collect_fees" /\ last.ret = 0
    /\ hist.collected > 0 /\ hist.collected = hist.charged

\* C20: a successful execute_swap(input, direction), with fee =
\* floor(input * fee_rate / 10000), credits input - fee to the input-side
\* reserve, debits the returned output = output_reserve -
\* floor(input_reserve * output_reserve / (input_reserve + input - fee)) from
\* the output-side reserve, adds fee to accumulated_fees, and leaves
\* total_liquidity, fee_rate and is_active unchanged.
C20_SwapEffect ==
    SwapSucceeded =>
        LET p == last.pre
            input == last.args[1]
            fee == (input * p.fee_rate) \div BPS
            input_reserve == InputReserve(p, last.args[2])
            output_reserve == OutputReserve(p, last.args[2])
            output == output_reserve
                        - (input_reserve * output_reserve)
                              \div (input_reserve + input - fee) IN
        /\ last.ret = output
        /\ InputReserve(pool, last.args[2]) = input_reserve + input - fee
        /\ OutputReserve(pool, last.args[2]) = output_reserve - output
        /\ pool.accumulated_fees = p.accumulated_fees + fee
        /\ pool.total_liquidity = p.total_liquidity
        /\ pool.fee_rate = p.fee_rate
        /\ pool.is_active = p.is_active

\* a swap that charged a fee and paid out
C20_Witness ==
    /\ SwapSucceeded /\ last.ret > 0
    /\ pool.accumulated_fees > last.pre.accumulated_fees

\* C27: right after a successful add_liquidity(amount) that minted s shares,
\* remove_liquidity(s), if it succeeds, returns yes_amount + no_amount of at
\* most amount.
C27_RoundTripNoGain ==
    (last.op = "add_liquidity" /\ last.ok) =>
        LET r == remove_liquidity(pool, last.ret) IN
        r.ok => r.ret[1] + r.ret[2] <= last.args[1]

\* a deposit into a pool that swaps have left lopsided, whose shares redeem
\* for something
C27_Witness ==
    /\ last.op = "add_liquidity" /\ last.ok
    /\ last.pre.total_liquidity > 0
    /\ last.pre.yes_reserves # last.pre.no_reserves
    /\ LET r == remove_liquidity(pool, last.ret) IN
       r.ok /\ r.ret[1] + r.ret[2] > 0

\* C28: every successful add_liquidity(amount) with amount > 0 returns at
\* least one liquidity share.
C28_DepositMintsShares ==
    (last.op = "add_liquidity" /\ last.ok /\ last.args[1] > 0) => last.ret > 0

----------------------------------------------------------------------------
(* Properties of the market record *)

\* C5: once the market is resolved, no step changes any of its fields
\* (resolved, resolution, resolved_at and both totals included) and every
\* place_bet or resolve call made on it fails.
C5_ResolutionFinality ==
    [][market.resolved => (market' = market /\ (steps' # steps => ~last'.ok))]_vars

\* a bet and a second resolution, both turned away by a resolved market
C5_Witness ==
    /\ market.resolved
    /\ last.op \in {"Market::place_bet", "Market::resolve"}
    /\ last.pre.market.resolved
    /\ ~last.ok

BetCalled == last.op = "Market::place_bet"
ResolveCalled == last.op = "Market::resolve"
Totals(m) == <<m.total_yes_amount, m.total_no_amount>>
SideTotal(m, is_yes) == IF is_yes THEN m.total_yes_amount ELSE m.total_no_amount

\* what keeps a bet out, whatever its side: the market is resolved, its end
\* time has come, or the amount is outside [min_bet_amount, max_bet_amount]
BetRefusable(m, clock, amount) ==
    \/ m.resolved
    \/ clock >= m.end_time
    \/ amount < m.min_bet_amount
    \/ amount > m.max_bet_amount

\* C11: Market::place_bet fails and leaves both totals as they were whenever
\* the market is resolved, the clock has reached end_time, or the amount is
\* below min_bet_amount or above max_bet_amount; it succeeds on an unresolved,
\* unexpired market for every amount within the limits whose addition to the
\* side total does not overflow.
C11_BetGuards ==
    BetCalled =>
        LET m == last.pre.market
            amount == last.args[1] IN
        /\ BetRefusable(m, last.pre.now, amount) =>
               (~last.ok /\ Totals(market) = Totals(m))
        /\ (~BetRefusable(m, last.pre.now, amount)
                /\ SideTotal(m, last.args[2]) + amount <= U64_MAX) => last.ok

\* on a market that already holds an accepted bet of its minimum, a bet one
\* half of the minimum is turned away while the market is still open
C11_Witness ==
    /\ BetCalled /\ ~last.ok
    /\ ~last.pre.market.resolved /\ last.pre.now < last.pre.market.end_time
    /\ last.pre.market.min_bet_amount = 10 /\ last.args[1] = 5
    /\ SideTotal(market, TRUE) = 10

\* C12: Market::resolve succeeds exactly when the market is unresolved and the
\* clock has reached end_time; otherwise it fails (AlreadyResolved on a resolved
\* market, MarketNotExpired before end_time) and leaves the market unchanged;
\* can_resolve is true exactly when resolve would succeed; and an unresolved
\* market never accepts both a bet and a resolution at the same instant, while
\* one of the two is always open as far as state and time are concerned.
C12_ResolveWindow ==
    /\ ResolveCalled =>
           LET m == last.pre.market IN
           /\ last.ok <=> (~m.resolved /\ last.pre.now >= m.end_time)
           /\ ~last.ok =>
                  /\ market = m
                  /\ last.err = IF m.resolved THEN "AlreadyResolved"
                                ELSE "MarketNotExpired"
    /\ \A resolution \in BOOLEAN :
           can_resolve(market, now) <=> market_resolve(market, resolution, now).ok
    /\ ~market.resolved =>
           \A amount \in BetAmounts, is_yes \in BOOLEAN, resolution \in BOOLEAN :
               LET b == market_place_bet(market, amount, is_yes, now)
                   r == market_resolve(market, resolution, now) IN
               /\ ~(b.ok /\ r.ok)
               /\ ~r.ok => b.err \notin {"MarketResolved", "MarketExpired"}

\* a resolution refused as too early, at an instant when a bet is accepted
C12_Witness ==
    /\ ResolveCalled /\ ~last.ok /\ last.err = "MarketNotExpired"
    /\ ~can_resolve(market, now)
    /\ market_place_bet(market, market.min_bet_amount, TRUE, now).ok

\* C13: in every reachable state resolution is Some exactly when resolved is
\* true, and resolved_at is Some exactly when resolved is true.
C13_ResolutionRecorded ==
    /\ market.resolution.some <=> market.resolved
    /\ market.resolved_at.some <=> market.resolved

\* a market resolved after it had taken bets
C13_Witness ==
    /\ market.resolved /\ market.resolution.some /\ market.resolved_at.some
    /\ market.total_yes_amount + market.total_no_amount > 0

\* C14: a successful Market::place_bet adds exactly the amount to the chosen
\* side's total and changes no other field; a bet whose addition would exceed
\* the u64 range fails with Overflow and changes nothing; and neither total
\* ever decreases.
C14_BetFrame ==
    /\ [](BetCalled =>
            LET m == last.pre.market
                field == IF last.args[2] THEN "total_yes_amount" ELSE "total_no_amount" IN
            /\ last.ok =>
                   /\ m[field] + last.args[1] <= U64_MAX
                   /\ market = [m EXCEPT ![field] = @ + last.args[1]]
            /\ (~BetRefusable(m, last.pre.now, last.args[1])
                    /\ m[field] + last.args[1] > U64_MAX) =>
                   (~last.ok /\ last.err = "Overflow" /\ market = m))
    /\ [][/\ market'.total_yes_amount >= market.total_yes_amount
          /\ market'.total_no_amount >= market.total_no_amount]_vars

\* a bet refused because the side total would leave the u64 range
C14_Witness ==
    /\ BetCalled /\ last.err = "Overflow"
    /\ SideTotal(market, last.args[2]) + last.args[1] > U64_MAX

----------------------------------------------------------------------------
(* Properties of the program *)

ClaimCalled == last.op = "claim_winnings"

\* C4: no position is paid more than once, and a claim on a position that
\* has already been paid fails with AlreadyClaimed and moves no tokens.
C4_AtMostOneClaim ==
    /\ \A u \in Users : hist.paid[u] <= 1
    /\ (ClaimCalled /\ last.pre.hist.paid[last.args[1]] >= 1) =>
           /\ ~last.ok
           /\ last.err = "AlreadyClaimed"
           /\ accounts.token = last.pre.accounts.token

\* a second claim on a paid position
C4_Witness ==
    ClaimCalled /\ last.pre.hist.paid[last.args[1]] = 1 /\ last.err = "AlreadyClaimed"

\* where an effect stands in a handler's sequence of effects
Position(effects, e) == CHOOSE i \in 1..Len(effects) : effects[i] = e

\* C8: in a successful claim the position is marked claimed before the
\* token transfer is invoked.
C8_ClaimedBeforeTransfer ==
    (ClaimCalled /\ last.ok) =>
        Position(last.effects, "claimed") < Position(last.effects, "transfer")

\* C9: a claim whose payout transfer is refused fails and leaves the position
\* unclaimed and every account as it was; a position is marked claimed only
\* after a claim that moved its payout from the vault to the user.
C9_FailedTransferLeavesUnclaimed ==
    /\ (ClaimCalled /\ (~last.args[2] \/ last.err = "TransferFailed")) =>
           /\ ~last.ok
           /\ accounts = last.pre.accounts
           /\ ~last.pre.accounts.user_position[last.args[1]].claimed
                  => ~accounts.user_position[last.args[1]].claimed
    /\ (ClaimCalled /\ last.ok) =>
           /\ last.args[2]
           /\ last.pre.accounts.token["market_vault"] >= last.ret
           /\ accounts.token["market_vault"]
                  = last.pre.accounts.token["market_vault"] - last.ret
           /\ accounts.token[last.args[1]]
                  = last.pre.accounts.token[last.args[1]] + last.ret
    /\ \A u \in Users : accounts.user_position[u].claimed => hist.paid[u] >= 1

\* a position whose payout was refused once and that claimed successfully later
C9_Witness ==
    ClaimCalled /\ last.ok /\ last.args[1] \in last.pre.hist.refused

MarketOf(acc) == <<acc.market.resolved, acc.market.outcome>>

\* C10: a resolve_market call signed by anyone but the market's oracle fails
\* and leaves resolved and outcome as they were, whatever the time and the
\* state; resolved and outcome change only in a successful resolve_market
\* signed by the oracle at a time >= end_time.
C10_OnlyOracleResolves ==
    /\ [](last.op = "resolve_market" /\ last.args[1] # last.pre.accounts.market.oracle
            => ~last.ok /\ MarketOf(accounts) = MarketOf(last.pre.accounts))
    /\ [][MarketOf(accounts') # MarketOf(accounts) =>
            /\ last'.op = "resolve_market" /\ last'.ok
            /\ last'.args[1] = accounts.market.oracle
            /\ now >= accounts.market.end_time
            /\ ~accounts.market.resolved /\ accounts'.market.resolved]_vars

\* a stranger's resolution, refused on an expired and still unresolved market
C10_Witness ==
    /\ last.op = "resolve_market" /\ last.args[1] # last.pre.accounts.market.oracle
    /\ last.pre.now >= last.pre.accounts.market.end_time
    /\ ~last.pre.accounts.market.resolved
    /\ ~last.ok

\* the stake a position holds on the side that won
WinningStake(m, position) ==
    IF m.outcome.v THEN position.yes_tokens ELSE position.no_tokens
WinningTotal(m) == IF m.outcome.v THEN m.total_yes_tokens ELSE m.total_no_tokens

\* C21: claim_winnings fails on an unresolved market (with MarketNotResolved
\* when the position exists) and fails with NoWinnings when the position holds
\* nothing on the winning side; a successful claim moves exactly
\* floor(winning stake * (total_yes_tokens + total_no_tokens) / winning total)
\* from the vault to the user and leaves the market record as it was.
C21_ClaimPayout ==
    ClaimCalled =>
        LET acc == last.pre.accounts
            m == acc.market
            user == last.args[1]
            position == acc.user_position[user] IN
        /\ ~m.resolved =>
               (~last.ok /\ (position.init => last.err = "MarketNotResolved"))
        /\ (m.resolved /\ position.init /\ WinningStake(m, position) = 0) =>
               (~last.ok /\ last.err = "NoWinnings")
        /\ last.ok =>
               LET payout == (WinningStake(m, position)
                                 * (m.total_yes_tokens + m.total_no_tokens))
                             \div WinningTotal(m) IN
               /\ last.ret = payout
               /\ accounts.token[user] = acc.token[user] + payout
               /\ accounts.token["market_vault"] = acc.token["market_vault"] - payout
        /\ accounts.market = m

\* C25: on a resolved market the payouts made so far never add up to more
\* than total_yes_tokens + total_no_tokens, and no claim is turned away
\* because the vault cannot pay it: a claim the token program is willing to
\* execute never fails in its transfer.
C25_VaultCoversClaims ==
    /\ accounts.market.resolved =>
           hist.payouts <= accounts.market.total_yes_tokens
                               + accounts.market.total_no_tokens
    /\ (ClaimCalled /\ last.args[2]) => last.err # "TransferFailed"

\* what the positions of a set of users hold on one side
RECURSIVE StakeSum(_, _, _)
StakeSum(acc, field, users) ==
    IF users = {} THEN 0
    ELSE LET u == CHOOSE x \in users : TRUE IN
         acc.user_position[u][field] + StakeSum(acc, field, users \ {u})

\* C26: in every reachable state total_yes_tokens is the sum of yes_tokens
\* over all positions and total_no_tokens the sum of no_tokens; so on a
\* resolved market a position with a positive stake on the winning side finds
\* a positive winning-side total to divide its payout by.
C26_TotalsMatchPositions ==
    /\ accounts.market.total_yes_tokens = StakeSum(accounts, "yes_tokens", Users)
    /\ accounts.market.total_no_tokens = StakeSum(accounts, "no_tokens", Users)
    /\ accounts.market.resolved =>
           \A u \in Users :
               WinningStake(accounts.market, accounts.user_position[u]) > 0
                   => WinningTotal(accounts.market) > 0

----------------------------------------------------------------------------
(* Properties of the pricing helpers *)

\* C22: calculate_payout_odds(0) = (0, 10000); calculate_payout_odds(p) =
\* (10000, 0) for every p >= 10000; for every 0 < p < 10000 the result is
\* (floor(100000000 / p), floor(100000000 / (10000 - p))); and
\* calculate_payout_odds(2500) = (40000, 13333).
C22_PayoutOdds ==
    last.op = "calculate_payout_odds" =>
        LET p == last.args[1] IN
        /\ p = 0 => last.ret = <<0, 10000>>
        /\ p >= 10000 => last.ret = <<10000, 0>>
        /\ (0 < p /\ p < 10000) =>
               last.ret = <<100000000 \div p, 100000000 \div (10000 - p)>>
        /\ p = 2500 => last.ret = <<40000, 13333>>

\* the odds at a price of 25%
C22_Witness ==
    last.op = "calculate_payout_odds" /\ last.args[1] = 2500 /\ last.ret[1] = 40000

\* C23: with the default PricingParams, the same no_shares and the same
\* total_liquidity > 0, calculate_market_price for a larger yes_shares is never
\* below the price for a smaller one.
C23_PriceMonotoneInYes ==
    (last.op = "calculate_market_price" /\ last.args[3] > 0) =>
        \A yes_shares \in ShareCounts :
            yes_shares > last.args[1] =>
                calculate_market_price(yes_shares, last.args[2], last.args[3],
                                       DefaultParams) >= last.ret

\* C24: buying the no side at price p costs exactly what buying the yes side
\* at price 10000 - p costs for the same shares and liquidity, namely
\* base + base * slippage / 10000 with base = (10000 - p) * shares / 10000.
C24_BuySideSymmetric ==
    (last.op = "calculate_buy_price" /\ ~last.args[4]) =>
        LET p == last.args[1]
            shares == last.args[2]
            base == ((10000 - p) * shares) \div 10000
            slippage == calculate_slippage(shares, last.args[3]) IN
        /\ last.ret = calculate_buy_price(10000 - p, shares, last.args[3], TRUE)
        /\ shares > 0 => last.ret = base + (base * slippage) \div 10000

====
